---------------------------- MODULE Spec2Model ----------------------------
(***************************************************************************)
(* A model of sunset.py: the command dispatch of main, the three actions   *)
(* show_time, run_commands and collect_images, and the part of the file    *)
(* system they act on (settings.py, the source images, the target          *)
(* directory).  An invocation of the script is a process; the file system  *)
(* is shared by all processes and outlives each of them.                   *)
(*                                                                         *)
(* Paths are taken to be absolute, and the target directory to be a        *)
(* directory other than the one the pattern of collect_images lists.       *)
(***************************************************************************)
EXTENDS Integers, Sequences, FiniteSets, TLC

\* ------------------------------------------------------------------ bounds

\* Number of image files under source_dir/subdir.
MaxSrc == 2
\* Number of invocations of the script, one after the other.
MaxRuns == 2
\* Longest sequence settings.commands(value) yields.
MaxCmds == 2

\* ------------------------------------------------------------ the universe

Procs == {1, 2}

SrcIds == 1..MaxSrc

\* Modification times the source images start with.
Times == 1..MaxSrc

\* The time of every write that happens while the model runs: later than
\* every initial modification time.
Now == MaxSrc + 1

\* The end of a source image's name before ".jpg": the signed index of the
\* image within its group of simultaneously captured images.
SrcSuffix(i) == IF i % 3 = 0 THEN "-1" ELSE "+1"

\* Values of --offset.
Offsets == {-1, 1}

\* What the user types when input() asks.
Answers == {"y", "Y", "n"}

\* Shell commands settings.commands may yield.
Commands == {"on", "off"}

\* Content of a file: i is the image source file i was written with, -i the
\* same file after it was edited, 0 an incomplete write.
Truncated == 0
Edited(i) == 0 - i

\* "{:d}.jpg".format(index)
JpgName(index) == ToString(index) \o ".jpg"

\* Names under the target directory: the numbered images, a hidden file and
\* a sub-directory.
HiddenNames == {".keep"}
DirNames == {"old"}
JpgNames == {JpgName(k) : k \in 0..(MaxSrc - 1)}
TargetNames == JpgNames \cup HiddenNames \cup DirNames

\* Directory entries.
Absent == [kind |-> "none", to |-> 0, content |-> 0]
Link(i) == [kind |-> "link", to |-> i, content |-> 0]
File(c) == [kind |-> "file", to |-> 0, content |-> c]
Dir == [kind |-> "dir", to |-> 0, content |-> 0]

\* Outcomes of one file-system call that the environment decides: it works,
\* it is refused before it changes anything (permissions), or it breaks off
\* after the destination was opened for writing (disk full).
Faults == {"none", "refused", "midway"}
NoFaults == {"none"}

VARIABLES
    settings,   \* settings.py exists beside the script
    sourceDir,  \* settings.TARGET_DIRECTORY is an existing directory
    mtime,      \* modification time of each source image
    content,    \* content of each source image
    targetDir,  \* the target directory exists
    target,     \* the entries of the target directory, by name
    proc,       \* the invocations of the script
    runs        \* the number of invocations started so far

vars == <<settings, sourceDir, mtime, content, targetDir, target, proc, runs>>

fs == <<settings, sourceDir, mtime, content, targetDir, target>>

\* ------------------------------------------------------- library functions

\* str.lower, on Answers.
Lower(s) == IF s = "Y" THEN "y" ELSE s

\* "{:+d}".format(offset): the sign is always written.
SignedFormat(offset) ==
    IF offset >= 0 THEN "+" \o ToString(offset) ELSE ToString(offset)

\* All orders in which a directory listing may return the set S.
Listings(S) ==
    {s \in [1..Cardinality(S) -> S] : \A a, b \in 1..Cardinality(S) : s[a] = s[b] => a = b}

\* glob(os.path.join(target_dir, "*")): the names present that do not start
\* with a dot.
GlobAll(t) == {n \in TargetNames : t[n].kind # "none" /\ n \notin HiddenNames}

\* glob(os.path.join(source_dir, subdir, "*{:+d}.jpg".format(offset)))
GlobPattern(offset) == {i \in SrcIds : SrcSuffix(i) = SignedFormat(offset)}

\* One step of a stable sort: x goes behind every element whose key is not
\* greater than its own.
InsertByMtime(s, x) ==
    LET n == Cardinality({j \in 1..Len(s) : mtime[s[j]] <= mtime[x]})
    IN  SubSeq(s, 1, n) \o <<x>> \o SubSeq(s, n + 1, Len(s))

\* A listing left in the order the directory returned it.
ListingOrder(s) == s

RECURSIVE SortedByMtime(_)
\* sorted(listing, key=os.path.getmtime)
SortedByMtime(s) ==
    IF s = <<>> THEN <<>>
    ELSE InsertByMtime(SortedByMtime(SubSeq(s, 1, Len(s) - 1)), s[Len(s)])

\* A removal that reports success and removes nothing.
RemoveNothing(t, name, fault) == [ok |-> TRUE, target |-> t]

\* os.remove(file): [ok, target].
OsRemove(t, name, fault) ==
    IF fault # "none" \/ t[name].kind \in {"none", "dir"}
    THEN [ok |-> FALSE, target |-> t]
    ELSE [ok |-> TRUE, target |-> [t EXCEPT ![name] = Absent]]

\* A link made as a copy of the bytes.
SymlinkAsCopy(t, path, name, fault) ==
    IF fault # "none" \/ t[name].kind # "none"
    THEN [ok |-> FALSE, target |-> t, content |-> content, mtime |-> mtime]
    ELSE [ok |-> TRUE, target |-> [t EXCEPT ![name] = File(content[path])],
          content |-> content, mtime |-> mtime]

\* os.symlink(path, target_path): [ok, target, content, mtime].
OsSymlink(t, path, name, fault) ==
    IF fault # "none" \/ t[name].kind # "none"
    THEN [ok |-> FALSE, target |-> t, content |-> content, mtime |-> mtime]
    ELSE [ok |-> TRUE, target |-> [t EXCEPT ![name] = Link(path)],
          content |-> content, mtime |-> mtime]

\* shutil.copyfile(path, target_path): [ok, target, content, mtime].  The
\* destination is opened for writing through a symbolic link, unless the
\* link leads to the file being copied (SameFileError).
ShutilCopyfile(t, path, name, fault) ==
    LET e == t[name]
        data == IF fault = "midway" THEN Truncated ELSE content[path]
    IN  IF \/ fault = "refused"
           \/ e.kind = "dir"
           \/ (e.kind = "link" /\ e.to = path)
        THEN [ok |-> FALSE, target |-> t, content |-> content, mtime |-> mtime]
        ELSE IF e.kind = "link"
        THEN [ok |-> fault = "none", target |-> t,
              content |-> [content EXCEPT ![e.to] = data],
              mtime |-> [mtime EXCEPT ![e.to] = Now]]
        ELSE [ok |-> fault = "none", target |-> [t EXCEPT ![name] = File(data)],
              content |-> content, mtime |-> mtime]

\* perform_operation = shutil.copyfile if args.copy else os.symlink
PerformOperation(copy, t, path, name, fault) ==
    IF copy THEN ShutilCopyfile(t, path, name, fault)
    ELSE OsSymlink(t, path, name, fault)

\* What reading the target entry `name` returns: a link is followed.
ReadTarget(name) ==
    LET e == target[name]
    IN  IF e.kind = "link" THEN content[e.to] ELSE e.content

\* --------------------------------------------------------------- processes

NoTarget == [n \in TargetNames |-> Absent]

\* A process that has not been started.  Besides the arguments and the local
\* variables of the code it records what the run printed and logged, and
\* what it did to the target directory.
Fresh ==
    [pc |-> "idle", func |-> "none",
     \* args
     execute |-> FALSE, offset |-> 0, purge |-> FALSE, silent |-> FALSE,
     copy |-> FALSE,
     \* the line waiting on standard input
     stdin |-> "n",
     \* run_commands: what commands(value) yielded, and the rest of the loop
     yielded |-> <<>>, todo |-> <<>>,
     \* commands given to os.system, and commands printed
     ran |-> <<>>, printed |-> <<>>,
     \* collect_images: the rest of g, files, index
     g |-> <<>>, files |-> <<>>, index |-> 0,
     \* the final message printed, the exception that ended the action,
     \* the number of logger.error calls, the exit status
     report |-> "none", raised |-> "none", errors |-> 0, exit |-> -1,
     \* the number of this invocation, and whether every other invocation
     \* had ended or not begun when this one began
     ticket |-> 0, alone |-> TRUE,
     \* the target directory when the run started
     dir0 |-> FALSE, target0 |-> NoTarget,
     \* names removed, indexes whose entry did not exist before it was
     \* made, and the content read by each completed copy or link
     deleted |-> {}, created |-> {}, copied |-> <<>>]

\* args.func(args) returns: main returns (line 163).
Return(p, pr, msg) ==
    proc' = [proc EXCEPT ![p] = [pr EXCEPT !.pc = "done", !.report = msg]]

\* An except clause that swallows the exception without logging it.
RaiseUnlogged(p, pr, exc) ==
    proc' = [proc EXCEPT ![p] = [pr EXCEPT !.pc = "done", !.raised = exc]]

\* args.func(args) raises: the except clause of main logs it (lines 164-166).
Raise(p, pr, exc) ==
    proc' = [proc EXCEPT ![p] =
                [pr EXCEPT !.pc = "done", !.raised = exc, !.errors = @ + 1]]

\* The command lines of collect-images.  --silent is read only with --purge,
\* and standard input only with --purge and without --silent: where they are
\* not read they are left at their defaults.
CollectArgs ==
    {a \in {[Fresh EXCEPT !.func = "collect_images", !.offset = o, !.purge = pu,
                          !.silent = si, !.copy = co, !.stdin = in] :
              o \in Offsets, pu \in BOOLEAN, si \in BOOLEAN, co \in BOOLEAN,
              in \in Answers} :
        /\ ~a.purge => ~a.silent
        /\ ~(a.purge /\ ~a.silent) => a.stdin = Fresh.stdin}

\* The command lines argparse accepts: no sub-command, or one of the three.
ArgSets ==
    {[Fresh EXCEPT !.func = "none"]}
    \cup {[Fresh EXCEPT !.func = "show_time"]}
    \cup {[Fresh EXCEPT !.func = "run_commands", !.execute = e] : e \in BOOLEAN}
    \cup CollectArgs

\* main: parse the arguments, print the help when no sub-command was given,
\* and call the sub-command's function otherwise.
Main(p, A) ==
    /\ proc[p].pc = "idle"
    /\ runs < MaxRuns
    /\ runs' = runs + 1
    /\ \E a \in A :
         LET pr == [a EXCEPT !.dir0 = targetDir, !.target0 = target,
                             !.ticket = runs + 1,
                             !.alone = \A q \in Procs \ {p} :
                                          proc[q].pc \in {"idle", "done"}]
         IN  IF a.func = "none"
             THEN Return(p, pr, "help")
             ELSE proc' = [proc EXCEPT ![p] = [pr EXCEPT !.pc = a.func]]
    /\ UNCHANGED fs

\* show_time: init(), then the event's time from the external calculation,
\* which may raise.
ShowTime(p) ==
    /\ proc[p].pc = "show_time"
    /\ settings' = TRUE
    /\ \E ok \in BOOLEAN :
         IF ok THEN Return(p, proc[p], "time") ELSE Raise(p, proc[p], "calc")
    /\ UNCHANGED <<sourceDir, mtime, content, targetDir, target, runs>>

\* Sequences settings.commands(value) may yield.
CmdSeqs == UNION {[1..n -> Commands] : n \in 0..MaxCmds}

\* run_commands up to the loop: init(), the value, commands(value).
RunCommands(p) ==
    /\ proc[p].pc = "run_commands"
    /\ settings' = TRUE
    /\ \E ok \in BOOLEAN :
         IF ok
         THEN \E cs \in CmdSeqs :
                proc' = [proc EXCEPT ![p] =
                    [@ EXCEPT !.pc = "commands", !.yielded = cs, !.todo = cs]]
         ELSE Raise(p, proc[p], "calc")
    /\ UNCHANGED <<sourceDir, mtime, content, targetDir, target, runs>>

\* A loop that runs every command it is given, whether or not --execute is
\* set.
CommandAlwaysRuns(p) ==
    /\ proc[p].pc = "commands"
    /\ LET pr == proc[p]
       IN  IF pr.todo = <<>>
           THEN Return(p, pr, "none")
           ELSE proc' = [proc EXCEPT ![p] =
                  [pr EXCEPT !.todo = Tail(@), !.ran = Append(@, Head(pr.todo))]]
    /\ UNCHANGED <<fs, runs>>

\* One turn of the loop of run_commands, or its end.
Command(p) ==
    /\ proc[p].pc = "commands"
    /\ LET pr == proc[p]
       IN  IF pr.todo = <<>>
           THEN Return(p, pr, "none")
           ELSE LET c == Head(pr.todo)
                IN  proc' = [proc EXCEPT ![p] =
                      IF pr.execute
                      THEN [pr EXCEPT !.todo = Tail(@), !.ran = Append(@, c)]
                      ELSE [pr EXCEPT !.todo = Tail(@), !.printed = Append(@, c)]]
    /\ UNCHANGED <<fs, runs>>

\* collect_images with the target directory made before the source
\* directory is looked at.
CollectImagesMakedirsFirst(p, F) ==
    /\ proc[p].pc = "collect_images"
    /\ LET pr == proc[p]
           next == IF pr.purge THEN "purge" ELSE "glob"
       IN  IF ~settings
           THEN Raise(p, pr, "import") /\ UNCHANGED targetDir
           ELSE /\ targetDir' = TRUE
                /\ IF ~sourceDir
                   THEN Return(p, pr, "nosource")
                   ELSE proc' = [proc EXCEPT ![p] = [pr EXCEPT !.pc = next]]
    /\ UNCHANGED <<settings, sourceDir, mtime, content, target, runs>>

\* collect_images up to the purge: the import of settings, the test of the
\* source directory, the creation of the target directory.
CollectImages(p, F) ==
    /\ proc[p].pc = "collect_images"
    /\ LET pr == proc[p]
           next == IF pr.purge THEN "purge" ELSE "glob"
       IN  IF ~settings
           THEN Raise(p, pr, "import") /\ UNCHANGED targetDir
           ELSE IF ~sourceDir
           THEN Return(p, pr, "nosource") /\ UNCHANGED targetDir
           ELSE IF targetDir
           THEN /\ proc' = [proc EXCEPT ![p] = [pr EXCEPT !.pc = next]]
                /\ UNCHANGED targetDir
           ELSE \E fault \in F \ {"midway"} :
                  IF fault = "none"
                  THEN /\ targetDir' = TRUE
                       /\ proc' = [proc EXCEPT ![p] = [pr EXCEPT !.pc = next]]
                  ELSE Raise(p, pr, "makedirs") /\ UNCHANGED targetDir
    /\ UNCHANGED <<settings, sourceDir, mtime, content, target, runs>>

\* The purge up to the first removal: the listing of the target directory
\* and the question to the user.
Purge(p) ==
    /\ proc[p].pc = "purge"
    /\ \E listing \in Listings(GlobAll(target)) :
         LET pr == proc[p]
             count == Len(listing)
         IN  IF count > 0 /\ ~pr.silent /\ Lower(pr.stdin) # "y"
             THEN Return(p, pr, "cancelled")
             ELSE proc' = [proc EXCEPT ![p] =
                    [pr EXCEPT !.g = listing,
                               !.pc = IF count > 0 THEN "remove" ELSE "glob"]]
    /\ UNCHANGED <<fs, runs>>

\* One turn of "for file in g: os.remove(file)".
Remove(p, F) ==
    /\ proc[p].pc = "remove"
    /\ \E fault \in F \ {"midway"} :
         LET pr == proc[p]
             file == Head(pr.g)
             r == OsRemove(target, file, fault)
         IN  /\ target' = r.target
             /\ IF r.ok
                THEN proc' = [proc EXCEPT ![p] =
                       [pr EXCEPT !.g = Tail(@), !.deleted = @ \cup {file},
                                  !.pc = IF Tail(pr.g) = <<>> THEN "glob" ELSE "remove"]]
                ELSE Raise(p, pr, "remove")
    /\ UNCHANGED <<settings, sourceDir, mtime, content, targetDir, runs>>

\* The listing of the source images and its sort.
Glob(p) ==
    /\ proc[p].pc = "glob"
    /\ \E listing \in Listings(GlobPattern(proc[p].offset)) :
         LET pr == proc[p]
             files == SortedByMtime(listing)
             count == Len(files)
         IN  IF count > 0
             THEN proc' = [proc EXCEPT ![p] =
                    [pr EXCEPT !.files = files, !.index = 0, !.pc = "perform"]]
             ELSE Return(p, pr, "nofiles")
    /\ UNCHANGED <<fs, runs>>

\* One turn of "for index, path in enumerate(files)", or the message after
\* the loop.
Perform(p, F) ==
    /\ proc[p].pc = "perform"
    /\ LET pr == proc[p]
       IN  IF pr.index = Len(pr.files)
           THEN /\ Return(p, pr, IF pr.copy THEN "copied" ELSE "linked")
                /\ UNCHANGED <<mtime, content, target>>
           ELSE \E fault \in (IF pr.copy THEN F ELSE F \ {"midway"}) :
                  LET path == pr.files[pr.index + 1]
                      target_path == JpgName(pr.index)
                      r == PerformOperation(pr.copy, target, path, target_path, fault)
                      done == [pr EXCEPT
                                 !.index = @ + 1,
                                 !.copied = Append(@, content[path]),
                                 !.created = IF target[target_path].kind = "none"
                                             THEN @ \cup {pr.index} ELSE @]
                  IN  /\ target' = r.target
                      /\ content' = r.content
                      /\ mtime' = r.mtime
                      /\ IF r.ok
                         THEN proc' = [proc EXCEPT ![p] = done]
                         ELSE Raise(p, pr, "perform")
    /\ UNCHANGED <<settings, sourceDir, targetDir, runs>>

\* main has returned: the interpreter ends the process with status 0.
Exit(p) ==
    /\ proc[p].pc = "done"
    /\ proc' = [proc EXCEPT ![p] = [@ EXCEPT !.pc = "idle", !.exit = 0]]
    /\ UNCHANGED <<fs, runs>>

\* The environment: while no invocation runs, somebody edits a source image.
\* One edited image at a time keeps the contents finite.
ModifySource(i) ==
    /\ \A p \in Procs : proc[p].pc = "idle"
    /\ sourceDir
    /\ content[i] = i
    /\ \A j \in SrcIds : content[j] # Edited(j)
    /\ content' = [content EXCEPT ![i] = Edited(i)]
    /\ mtime' = [mtime EXCEPT ![i] = Now]
    /\ UNCHANGED <<settings, sourceDir, targetDir, target, proc, runs>>

\* ---------------------------------------------------------- specifications

\* The file systems a first invocation may find.
InitFs ==
    /\ settings \in BOOLEAN
    /\ sourceDir \in BOOLEAN
    /\ mtime \in [SrcIds -> Times]
    \* only the order of the times matters: they are 1..k for some k
    /\ \E k \in Times : {mtime[i] : i \in SrcIds} = 1..k
    /\ ~sourceDir => mtime = [i \in SrcIds |-> 1]
    /\ content = [i \in SrcIds |-> i]
    /\ targetDir \in BOOLEAN
    /\ \E hidden \in SUBSET HiddenNames, dirs \in SUBSET DirNames :
         /\ ~targetDir => hidden = {} /\ dirs = {}
         /\ target = [n \in TargetNames |->
                        IF n \in hidden THEN File(Truncated)
                        ELSE IF n \in dirs THEN Dir ELSE Absent]

Init ==
    /\ InitFs
    /\ proc = [p \in Procs |-> Fresh]
    /\ runs = 0

\* One invocation at a time, one after the other.
Next ==
    \/ Main(1, ArgSets)
    \/ ShowTime(1)
    \/ RunCommands(1)
    \/ Command(1)
    \/ CollectImages(1, Faults)
    \/ Purge(1)
    \/ Remove(1, Faults)
    \/ Glob(1)
    \/ Perform(1, Faults)
    \/ Exit(1)
    \/ \E i \in SrcIds : ModifySource(i)

Spec == Init /\ [][Next]_vars

\* Two invocations of collect-images --purge --silent on one target
\* directory, each step of one possibly between two steps of the other; no
\* file-system call fails for a reason of the environment's.
ConcArgs == {a \in CollectArgs : a.purge /\ a.silent}

InitConc ==
    /\ Init
    /\ settings
    /\ sourceDir

NextConc ==
    \E p \in Procs :
        \/ Main(p, ConcArgs)
        \/ CollectImages(p, NoFaults)
        \/ Purge(p)
        \/ Remove(p, NoFaults)
        \/ Glob(p)
        \/ Perform(p, NoFaults)

SpecConc == InitConc /\ [][NextConc]_vars

\* ------------------------------------------------------------- properties

\* The names present in a directory.
Present(t) == {n \in TargetNames : t[n].kind # "none"}

\* The invocation of the sequential specification.
P1 == proc[1]

\* A run of collect_images that got as far as listing the source images.
Collected(pr) ==
    /\ pr.func = "collect_images"
    /\ pr.pc = "done"
    /\ pr.raised = "none"
    /\ pr.report \in {"copied", "linked", "nofiles"}

\* The target entry e stands for source image i: a link to it, or a file with
\* its bytes.
Refers(e, i, copy) == IF copy THEN e = File(content[i]) ELSE e = Link(i)

C7_FailureExitsNonZero ==
    P1.exit # -1 => (P1.errors > 0 <=> P1.exit # 0)

\* C8: run_commands handles the commands that commands(value) yielded once
\* each and in their order: with --execute they are run and none is
\* printed, without it they are printed and none is run; when none is
\* yielded nothing is run or printed; no error is logged.
C8_CommandsOnceInOrder ==
    (P1.func = "run_commands" /\ P1.pc \in {"commands", "done"} /\ P1.raised = "none")
    => /\ IF P1.execute
          THEN P1.ran \o P1.todo = P1.yielded /\ P1.printed = <<>>
          ELSE P1.printed \o P1.todo = P1.yielded /\ P1.ran = <<>>
       /\ P1.errors = 0
       /\ P1.pc = "done" => P1.todo = <<>>

\* C8's case: without --execute two different commands were yielded, and
\* the loop has ended.
C8_Witness ==
    /\ P1.func = "run_commands" /\ P1.pc = "done" /\ ~P1.execute
    /\ P1.yielded = <<"on", "off">>
    /\ P1.printed = <<"on", "off">>

\* A run of collect_images that got past the listing of the target directory
\* and the question to the user.
PastQuestion(pr) ==
    /\ pr.func = "collect_images"
    /\ \/ pr.pc \in {"remove", "glob", "perform"}
       \/ /\ pr.pc = "done"
          /\ pr.raised \notin {"import", "makedirs"}
          /\ pr.report # "nosource"

\* C2 as stated: with --purge, without --silent, on a target directory that
\* is not empty, an answer other than y ends the run with the report of the
\* cancellation, no error, and the target directory as it was.
C2_DeclineChangesNothing ==
    (/\ PastQuestion(P1)
     /\ P1.purge /\ ~P1.silent
     /\ Present(P1.target0) # {}
     /\ Lower(P1.stdin) # "y")
    => /\ P1.pc = "done"
       /\ P1.report = "cancelled"
       /\ P1.errors = 0
       /\ target = P1.target0

\* A run of collect_images with --purge that is past the purge: it lists or
\* collects the source images, or has ended doing so.
PastPurge(pr) ==
    /\ pr.func = "collect_images"
    /\ pr.purge
    /\ \/ pr.pc \in {"glob", "perform"}
       \/ pr.pc = "done" /\ (pr.raised = "perform" \/ Collected(pr))

\* C4 as stated: with --purge, and --silent or the user's consent, every
\* entry the target directory held when the run began has been deleted
\* before the first new entry is made.
C4_PurgeDeletesEveryEntry ==
    (PastPurge(P1) /\ (P1.silent \/ Lower(P1.stdin) = "y"))
    => \A n \in Present(P1.target0) : n \in P1.deleted

\* C5: every entry a run of collect_images created is, without --copy, a
\* link to the source image, so that reading it returns what the image
\* holds now; with --copy it is a file holding what the image held when it
\* was copied, whatever the image holds now.
C5_LinksFollowCopiesKeep ==
    P1.func = "collect_images"
    => \A k \in P1.created :
         IF P1.copy
         THEN /\ target[JpgName(k)].kind = "file"
              /\ ReadTarget(JpgName(k)) = P1.copied[k + 1]
         ELSE /\ target[JpgName(k)] = Link(P1.files[k + 1])
              /\ ReadTarget(JpgName(k)) = content[P1.files[k + 1]]

\* C5's case: the run without --copy has ended, its first image was edited
\* afterwards, and 0.jpg reads as the edited image.
C5_Witness ==
    /\ P1.func = "collect_images" /\ P1.pc = "idle" /\ ~P1.copy
    /\ 0 \in P1.created
    /\ content[P1.files[1]] = Edited(P1.files[1])
    /\ ReadTarget(JpgName(0)) = Edited(P1.files[1])

\* The entry `n` as the purge of run pr left it.
AfterPurge(pr, n) == IF n \in pr.deleted THEN Absent ELSE pr.target0[n]

\* The names of the entries run pr has made.
Made(pr) == {JpgName(j) : j \in 0..(pr.index - 1)}

\* C6 as stated: when a removal or the k-th link or copy fails, one error
\* is logged and the action ends; what was removed stays removed, the
\* entries 0 .. k-1 are there, and no entry from k on was made.
C6_NothingFromFailedStep ==
    (P1.pc = "done" /\ P1.raised \in {"remove", "perform"})
    => /\ P1.errors = 1
       /\ \A n \in TargetNames :
            IF n \in Made(P1) THEN target[n].kind # "none"
            ELSE target[n] = AfterPurge(P1, n)

\* C6, amended: when a removal or the k-th link or copy fails, one error is
\* logged and the action ends; what was removed stays removed, the entries
\* 0 .. k-1 are there, no entry after k was made, and k.jpg is as the purge
\* left it or, with --copy, an incomplete file.
C6_NoRollbackNoRetry ==
    (P1.pc = "done" /\ P1.raised \in {"remove", "perform"})
    => /\ P1.errors = 1
       /\ \A n \in TargetNames :
            IF n \in Made(P1) THEN target[n].kind # "none"
            ELSE IF n = JpgName(P1.index) /\ P1.raised = "perform" /\ P1.copy
            THEN target[n] \in {AfterPurge(P1, n), File(Truncated)}
            ELSE target[n] = AfterPurge(P1, n)

\* C6's case: after a purge that removed an entry the first copy worked and
\* the second broke off, leaving an incomplete 1.jpg.
C6_Witness ==
    /\ P1.pc = "done" /\ P1.raised = "perform" /\ P1.copy
    /\ P1.deleted # {}
    /\ P1.index = 1
    /\ target[JpgName(0)].kind = "file"
    /\ target[JpgName(1)] = File(Truncated)

\* The numbered entries of the target directory are exactly those of run pr.
Complete(pr) ==
    LET n == Cardinality(GlobPattern(pr.offset))
    IN  /\ Present(target) \cap JpgNames = {JpgName(k) : k \in 0..(n - 1)}
        /\ Len(pr.files) = n
        /\ \A k \in 0..(n - 1) : Refers(target[JpgName(k)], pr.files[k + 1], pr.copy)

\* Both invocations have ended without an error.
BothEnded ==
    \A p \in Procs :
        proc[p].func = "collect_images" /\ proc[p].pc = "done" /\ proc[p].raised = "none"

C10_SourcesKeepContent ==
    \A i \in SrcIds : content[i] \in {i, Edited(i)}

============================================================================
